---- MODULE Spec2Model ----
(***************************************************************************)
(* The protocol engine of x7dap (src/src/lib.rs, impl X7): the operations  *)
(* dna, status, program_cb and jprogram, run step by step against a JTAG   *)
(* transport whose every call may fail and whose data register returns     *)
(* whatever the device shifts out.                                         *)
(***************************************************************************)
EXTENDS Integers, Sequences, FiniteSets, TLC

\* ------------------------------------------------------------------ bounds

\* Longest bitstream payload, in bytes.
MaxLen == 2
\* Most progress reports the transport makes during one data register write.
MaxCb == 2

\* The longest JTAG chain.
MaxChain == 3

\* ------------------------------------------------------- bits and bytes

RECURSIVE Pow2(_)
Pow2(n) == IF n = 0 THEN 1 ELSE 2 * Pow2(n - 1)

\* Bit i of the byte (or other small unsigned integer) x, as 0 or 1.
Bit(x, i) == (x \div Pow2(i)) % 2

\* A u32 is the set of the positions of its set bits, 0 the least
\* significant: the model checker's integers are too narrow for its value.
\* U32(hi, lo) is the word with the upper half hi and the lower half lo.
U32(hi, lo) ==
    {i \in 0..31 : IF i < 16 THEN Bit(lo, i) = 1 ELSE Bit(hi, i - 16) = 1}

\* Bit i of the u32 w, as 0 or 1.
WBit(w, i) == IF i \in w THEN 1 ELSE 0

RECURSIVE SumTo(_, _)
\* f[0] + ... + f[n]
SumTo(f, n) == IF n < 0 THEN 0 ELSE f[n] + SumTo(f, n - 1)

\* u8::reverse_bits
reverse_bits_u8(x) == SumTo([i \in 0..7 |-> Bit(x, i) * Pow2(7 - i)], 7)

\* u32::reverse_bits
reverse_bits_u32(w) == {31 - i : i \in w}

\* jtagdap::bitvec::bytes_to_bits: the first n bits of the bytes, each byte
\* least significant bit first.
bytes_to_bits(bytes, n) ==
    [k \in 1..n |-> Bit(bytes[((k - 1) \div 8) + 1], (k - 1) % 8)]

\* jtagdap::bitvec::bits_to_bytes: packs bits into bytes, the first bit of
\* each group of eight into the least significant bit.
bits_to_bytes(bits) ==
    [j \in 1..((Len(bits) + 7) \div 8) |->
        SumTo([k \in 0..7 |->
                 IF 8 * (j - 1) + k + 1 <= Len(bits)
                 THEN bits[8 * (j - 1) + k + 1] * Pow2(k) ELSE 0], 7)]

\* jtagdap::bitvec::append_u32: appends the 32 bits of w, least significant
\* bit first.
append_u32(bits, w) == bits \o [k \in 1..32 |-> WBit(w, k - 1)]

\* u32::from_le_bytes
from_le_bytes(b) == {i \in 0..31 : Bit(b[(i \div 8) + 1], i % 8) = 1}

\* ------------------------------------------------- instruction catalogue

CFG_OUT == 4
CFG_IN == 5
JPROGRAM == 11
JSTART == 12
FUSE_DNA == 50

\* enum Command: every instruction with its discriminant.
Command ==
    <<
       [name |-> "EXTEST", code |-> 38],           \* 0b100110
       [name |-> "EXTEST_PULSE", code |-> 60],     \* 0b111100
       [name |-> "EXTEST_TRAIN", code |-> 125],    \* 0b1111101
       [name |-> "SAMPLE", code |-> 1],            \* 0b000001
       [name |-> "USER1", code |-> 2],             \* 0b000010
       [name |-> "USER2", code |-> 3],             \* 0b000011
       [name |-> "USER3", code |-> 34],            \* 0b100010
       [name |-> "USER4", code |-> 35],            \* 0b100011
       [name |-> "CFG_OUT", code |-> CFG_OUT],     \* 0b000100
       [name |-> "CFG_IN", code |-> CFG_IN],       \* 0b000101
       [name |-> "USERCODE", code |-> 8],          \* 0b001000
       [name |-> "IDCODE", code |-> 9],            \* 0b001001
       [name |-> "HIGHZ_IO", code |-> 10],         \* 0b001010
       [name |-> "JPROGRAM", code |-> JPROGRAM],   \* 0b001011
       [name |-> "JSTART", code |-> JSTART],       \* 0b001100
       [name |-> "JSHUTDOWN", code |-> 13],        \* 0b001101
       [name |-> "XADC_DRP", code |-> 55],         \* 0b110111
       [name |-> "ISC_ENABLE", code |-> 16],       \* 0b010000
       [name |-> "ISC_PROGRAM", code |-> 17],      \* 0b010001
       [name |-> "XSC_PROGRAM_KEY", code |-> 18],  \* 0b010010
       [name |-> "XSC_DNA", code |-> 23],          \* 0b010111
       [name |-> "FUSE_DNA", code |-> FUSE_DNA],   \* 0b110010
       [name |-> "ISC_NOOP", code |-> 20],         \* 0b010100
       [name |-> "ISC_DISABLE", code |-> 22],      \* 0b010110
       [name |-> "BYPASS", code |-> 63]            \* 0b111111
    >>

\* Command::bits giving as many bits as the opcode has: 7 for an opcode of
\* 64 or more.
Command_bits_by_width(command) ==
    bytes_to_bits(<<command>>, IF command >= 64 THEN 7 ELSE 6)

\* Command::bits
Command_bits(command) == bytes_to_bits(<<command>>, 6)

\* ------------------------------------------------------- status register

\* Status::bit
bit(s, offset) == WBit(s, offset) = 1

dec_error(s) == bit(s, 16)
id_error(s) == bit(s, 15)
done(s) == bit(s, 14)
release_done(s) == bit(s, 13)
init_b(s) == bit(s, 12)
init_complete(s) == bit(s, 11)
crc_error(s) == bit(s, 0)

\* The payload of a status read with the words appended as they are, not
\* bit-reversed.
StatusRequest_unreversed ==
    append_u32(append_u32(append_u32(append_u32(append_u32(<<>>,
        U32(43673, 21862)),
        U32(8192, 0)),
        U32(10240, 57345)),
        U32(8192, 0)),
        U32(8192, 0))

\* The data register payload of a status read.
StatusRequest ==
    append_u32(append_u32(append_u32(append_u32(append_u32(<<>>,
        reverse_bits_u32(U32(43673, 21862))),
        reverse_bits_u32(U32(8192, 0))),
        reverse_bits_u32(U32(10240, 57345))),
        reverse_bits_u32(U32(8192, 0))),
        reverse_bits_u32(U32(8192, 0)))

\* The Status built without the final reverse_bits.
StatusOfBits_unreversed(rx) == from_le_bytes(bits_to_bytes(rx))

\* The Status built from the 32 bits shifted out of the data register.
StatusOfBits(rx) == reverse_bits_u32(from_le_bytes(bits_to_bytes(rx)))

\* check_ready_to_program without its test of init_b.
ReadyToProgram_no_init_b(s) ==
    IF ~init_complete(s) THEN FALSE
    ELSE TRUE

\* The checks of check_ready_to_program, in the code's order.
ReadyToProgram(s) ==
    IF ~init_complete(s) THEN FALSE
    ELSE IF ~init_b(s) THEN FALSE
    ELSE TRUE

\* check_programmed_ok without its test of crc_error.
ProgrammedOk_no_crc(s) ==
    IF ~init_complete(s) THEN FALSE
    ELSE IF ~init_b(s) THEN FALSE
    ELSE IF ~done(s) THEN FALSE
    ELSE IF ~release_done(s) THEN FALSE
    ELSE IF dec_error(s) THEN FALSE
    ELSE IF id_error(s) THEN FALSE
    ELSE TRUE

\* check_programmed_ok with the tests of check_ready_to_program only.
ProgrammedOk_as_ready(s) ==
    IF ~init_complete(s) THEN FALSE
    ELSE IF ~init_b(s) THEN FALSE
    ELSE TRUE

\* check_programmed_ok without its test of done.
ProgrammedOk_no_done(s) ==
    IF ~init_complete(s) THEN FALSE
    ELSE IF ~init_b(s) THEN FALSE
    ELSE IF ~release_done(s) THEN FALSE
    ELSE IF dec_error(s) THEN FALSE
    ELSE IF id_error(s) THEN FALSE
    ELSE IF crc_error(s) THEN FALSE
    ELSE TRUE

\* The checks of check_programmed_ok, in the code's order.
ProgrammedOk(s) ==
    IF ~init_complete(s) THEN FALSE
    ELSE IF ~init_b(s) THEN FALSE
    ELSE IF ~done(s) THEN FALSE
    ELSE IF ~release_done(s) THEN FALSE
    ELSE IF dec_error(s) THEN FALSE
    ELSE IF id_error(s) THEN FALSE
    ELSE IF crc_error(s) THEN FALSE
    ELSE TRUE

\* (self.0 >> n), on the set of set bits.
ShiftRight(w, n) == {i - n : i \in {j \in w : j >= n}}

\* (w & m), on the sets of set bits.
BitAnd(w, m) == w \cap m

\* A u32 known to fit a u8, cast with `as u8`: its value as a number.
AsU8(w) == SumTo([i \in 0..7 |-> WBit(w, i) * Pow2(i)], 7)

\* Status::mode with a shift of 9 instead of 8.
mode_shift_9(s) == AsU8(BitAnd(ShiftRight(s, 9), U32(0, 7)))

startup_state(s) == AsU8(BitAnd(ShiftRight(s, 18), U32(0, 7)))
xadc_overtemp(s) == bit(s, 17)
mode(s) == AsU8(BitAnd(ShiftRight(s, 8), U32(0, 7)))
ghigh_b(s) == bit(s, 7)
gwe(s) == bit(s, 6)
gts_cfg_b(s) == bit(s, 5)
eos(s) == bit(s, 4)
dci_match(s) == bit(s, 3)
mmcm_lock(s) == bit(s, 2)
part_secured(s) == bit(s, 1)

\* All 17 fields of the Status s, as the accessors return them.
StatusFields(s) ==
    [startup_state |-> startup_state(s), xadc_overtemp |-> xadc_overtemp(s),
     dec_error |-> dec_error(s), id_error |-> id_error(s), done |-> done(s),
     release_done |-> release_done(s), init_b |-> init_b(s),
     init_complete |-> init_complete(s), mode |-> mode(s),
     ghigh_b |-> ghigh_b(s), gwe |-> gwe(s), gts_cfg_b |-> gts_cfg_b(s),
     eos |-> eos(s), dci_match |-> dci_match(s), mmcm_lock |-> mmcm_lock(s),
     part_secured |-> part_secured(s), crc_error |-> crc_error(s)]

\* ------------------------------------------------------- device identity

\* enum X7IDCODE: every variant with its discriminant. A variant is named by
\* the string of its identifier.
X7IDCODE ==
    <<
       [id |-> "X7S6", code |-> U32(866, 8339)],  \* 0x03622093
       [id |-> "X7S15", code |-> U32(866, 147)],  \* 0x03620093
       [id |-> "X7S25", code |-> U32(892, 16531)],  \* 0x037C4093
       [id |-> "X7S50", code |-> U32(866, 61587)],  \* 0x0362F093
       [id |-> "X7S75", code |-> U32(892, 32915)],  \* 0x037C8093
       [id |-> "X7S100", code |-> U32(892, 28819)],  \* 0x037C7093
       [id |-> "X7A12T", code |-> U32(892, 12435)],  \* 0x037C3093
       [id |-> "X7A15T", code |-> U32(866, 57491)],  \* 0x0362E093
       [id |-> "X7A25T", code |-> U32(892, 8339)],  \* 0x037C2093
       [id |-> "X7A35T", code |-> U32(866, 53395)],  \* 0x0362D093
       [id |-> "X7A50T", code |-> U32(866, 49299)],  \* 0x0362C093
       [id |-> "X7A75T", code |-> U32(867, 8339)],  \* 0x03632093
       [id |-> "X7A100T", code |-> U32(867, 4243)],  \* 0x03631093
       [id |-> "X7A200T", code |-> U32(867, 24723)],  \* 0x03636093
       [id |-> "X7K70T", code |-> U32(868, 28819)],  \* 0x03647093
       [id |-> "X7K160T", code |-> U32(868, 49299)],  \* 0x0364C093
       [id |-> "X7K325T", code |-> U32(869, 4243)],  \* 0x03651093
       [id |-> "X7K355T", code |-> U32(884, 28819)],  \* 0x03747093
       [id |-> "X7K410T", code |-> U32(869, 24723)],  \* 0x03656093
       [id |-> "X7K420T", code |-> U32(885, 8339)],  \* 0x03752093
       [id |-> "X7K480T", code |-> U32(885, 4243)],  \* 0x03751093
       [id |-> "X7V575T", code |-> U32(871, 4243)],  \* 0x03671093
       [id |-> "X7VX330T", code |-> U32(870, 28819)],  \* 0x03667093
       [id |-> "X7VX415T", code |-> U32(872, 8339)],  \* 0x03682093
       [id |-> "X7VX485T", code |-> U32(872, 28819)],  \* 0x03687093
       [id |-> "X7VX550T", code |-> U32(873, 8339)],  \* 0x03692093
       [id |-> "X7VX690T", code |-> U32(873, 4243)],  \* 0x03691093
       [id |-> "X7VX980T", code |-> U32(873, 24723)],  \* 0x03696093
       [id |-> "X7VX1140T", code |-> U32(877, 20627)],  \* 0x036D5093
       [id |-> "X7VH580T", code |-> U32(877, 37011)],  \* 0x036D9093
       [id |-> "X7VH870T", code |-> U32(877, 45203)],  \* 0x036DB093
       [id |-> "X7Z007S", code |-> U32(882, 12435)],  \* 0x03723093
       [id |-> "X7Z012S", code |-> U32(883, 49299)],  \* 0x0373C093
       [id |-> "X7Z014S", code |-> U32(882, 32915)],  \* 0x03728093
       [id |-> "X7Z010", code |-> U32(882, 8339)],  \* 0x03722093
       [id |-> "X7Z015", code |-> U32(883, 45203)],  \* 0x0373B093
       [id |-> "X7Z020", code |-> U32(882, 28819)],  \* 0x03727093
       [id |-> "X7Z030", code |-> U32(882, 49299)],  \* 0x0372C093
       [id |-> "X7Z035", code |-> U32(883, 8339)],  \* 0x03732093
       [id |-> "X7Z045", code |-> U32(883, 4243)],  \* 0x03731093
       [id |-> "X7Z100", code |-> U32(883, 24723)]  \* 0x03736093
    >>

\* The variants of X7IDCODE.
X7Ids == {X7IDCODE[i].id : i \in 1..Len(X7IDCODE)}

\* `id as u32`: the discriminant of a variant.
as_u32(id) == X7IDCODE[CHOOSE i \in 1..Len(X7IDCODE) : X7IDCODE[i].id = id].code

\* TryFromPrimitive's try_from: the variant whose discriminant is v, as
\* <<id>>, or <<>> when there is none (.ok() of the Err).
try_from(v) ==
    LET hits == {i \in 1..Len(X7IDCODE) : X7IDCODE[i].code = v}
    IN  IF hits = {} THEN <<>> ELSE <<X7IDCODE[CHOOSE i \in hits : TRUE].id>>

\* X7IDCODE::try_from_idcode without the mask of the revision.
try_from_idcode_unmasked(idcode) == try_from(idcode)

\* X7IDCODE::try_from_idcode
try_from_idcode(idcode) == try_from(BitAnd(idcode, U32(4095, 65535)))

\* X7IDCODE::try_from_u32
try_from_u32(idcode) == try_from_idcode(idcode)

\* A string is the sequence of the ASCII codes of its characters.
\* u8::to_ascii_uppercase, which str::to_ascii_uppercase applies to every
\* byte.
to_ascii_uppercase(c) == IF c \in 97..122 THEN c - 32 ELSE c

\* The arms of the match of try_from_name, in order: pattern and variant.
try_from_name_arms ==
    <<
       <<<<88, 55, 83, 54>>, "X7S6">>,  \* "X7S6"
       <<<<88, 55, 83, 49, 53>>, "X7S15">>,  \* "X7S15"
       <<<<88, 55, 83, 50, 53>>, "X7S25">>,  \* "X7S25"
       <<<<88, 55, 83, 53, 48>>, "X7S50">>,  \* "X7S50"
       <<<<88, 55, 83, 55, 53>>, "X7S75">>,  \* "X7S75"
       <<<<88, 55, 83, 49, 48, 48>>, "X7S100">>,  \* "X7S100"
       <<<<88, 55, 65, 49, 50, 84>>, "X7A12T">>,  \* "X7A12T"
       <<<<88, 55, 65, 49, 53, 84>>, "X7A15T">>,  \* "X7A15T"
       <<<<88, 55, 65, 50, 53, 84>>, "X7A25T">>,  \* "X7A25T"
       <<<<88, 55, 65, 51, 53, 84>>, "X7A35T">>,  \* "X7A35T"
       <<<<88, 55, 65, 53, 48, 84>>, "X7A50T">>,  \* "X7A50T"
       <<<<88, 55, 65, 55, 53, 84>>, "X7A75T">>,  \* "X7A75T"
       <<<<88, 55, 65, 49, 48, 48, 84>>, "X7A100T">>,  \* "X7A100T"
       <<<<88, 55, 65, 50, 48, 48, 84>>, "X7A200T">>,  \* "X7A200T"
       <<<<88, 55, 75, 55, 48, 84>>, "X7K70T">>,  \* "X7K70T"
       <<<<88, 55, 75, 49, 54, 48, 84>>, "X7K160T">>,  \* "X7K160T"
       <<<<88, 55, 75, 51, 50, 53, 84>>, "X7K325T">>,  \* "X7K325T"
       <<<<88, 55, 75, 51, 53, 53, 84>>, "X7K355T">>,  \* "X7K355T"
       <<<<88, 55, 75, 52, 49, 48, 84>>, "X7K410T">>,  \* "X7K410T"
       <<<<88, 55, 75, 52, 50, 48, 84>>, "X7K420T">>,  \* "X7K420T"
       <<<<88, 55, 75, 52, 56, 48, 84>>, "X7K480T">>,  \* "X7K480T"
       <<<<88, 55, 86, 53, 55, 53, 84>>, "X7V575T">>,  \* "X7V575T"
       <<<<88, 55, 86, 88, 51, 51, 48, 84>>, "X7VX330T">>,  \* "X7VX330T"
       <<<<88, 55, 86, 88, 52, 49, 53, 84>>, "X7VX415T">>,  \* "X7VX415T"
       <<<<88, 55, 86, 88, 52, 56, 53, 84>>, "X7VX485T">>,  \* "X7VX485T"
       <<<<88, 55, 86, 88, 53, 53, 48, 84>>, "X7VX550T">>,  \* "X7VX550T"
       <<<<88, 55, 86, 88, 54, 57, 48, 84>>, "X7VX690T">>,  \* "X7VX690T"
       <<<<88, 55, 86, 88, 57, 56, 48, 84>>, "X7VX980T">>,  \* "X7VX980T"
       <<<<88, 55, 86, 88, 49, 49, 52, 48, 84>>, "X7VX1140T">>,  \* "X7VX1140T"
       <<<<88, 55, 86, 72, 53, 56, 48, 84>>, "X7VH580T">>,  \* "X7VH580T"
       <<<<88, 55, 86, 72, 56, 55, 48, 84>>, "X7VH870T">>,  \* "X7VH870T"
       <<<<88, 55, 90, 48, 48, 55, 83>>, "X7Z007S">>,  \* "X7Z007S"
       <<<<88, 55, 90, 48, 49, 50, 83>>, "X7Z012S">>,  \* "X7Z012S"
       <<<<88, 55, 90, 48, 49, 52, 83>>, "X7Z014S">>,  \* "X7Z014S"
       <<<<88, 55, 90, 48, 49, 48>>, "X7Z010">>,  \* "X7Z010"
       <<<<88, 55, 90, 48, 49, 53>>, "X7Z015">>,  \* "X7Z015"
       <<<<88, 55, 90, 48, 50, 48>>, "X7Z020">>,  \* "X7Z020"
       <<<<88, 55, 90, 48, 51, 48>>, "X7Z030">>,  \* "X7Z030"
       <<<<88, 55, 90, 48, 51, 53>>, "X7Z035">>,  \* "X7Z035"
       <<<<88, 55, 90, 48, 52, 53>>, "X7Z045">>,  \* "X7Z045"
       <<<<88, 55, 90, 49, 48, 48>>, "X7Z100">>  \* "X7Z100"
    >>

\* X7IDCODE::try_from_name comparing the name as given, not upper-cased.
try_from_name_case_sensitive(name) ==
    LET hits == {i \in 1..Len(try_from_name_arms) : try_from_name_arms[i][1] = name}
    IN  IF hits = {} THEN <<>>
        ELSE <<try_from_name_arms[CHOOSE i \in hits : \A j \in hits : i <= j][2]>>

\* X7IDCODE::try_from_name: the first arm whose pattern is the upper-cased
\* name, or None.
try_from_name(name) ==
    LET upper == [i \in 1..Len(name) |-> to_ascii_uppercase(name[i])]
        hits == {i \in 1..Len(try_from_name_arms) : try_from_name_arms[i][1] = upper}
    IN  IF hits = {} THEN <<>>
        ELSE <<try_from_name_arms[CHOOSE i \in hits : \A j \in hits : i <= j][2]>>

\* The arms of the match of name(), in order: variant and string.
name_arms ==
    <<
       <<"X7S6", <<88, 55, 83, 54>>>>,  \* "X7S6"
       <<"X7S15", <<88, 55, 83, 49, 53>>>>,  \* "X7S15"
       <<"X7S25", <<88, 55, 83, 50, 53>>>>,  \* "X7S25"
       <<"X7S50", <<88, 55, 83, 53, 48>>>>,  \* "X7S50"
       <<"X7S75", <<88, 55, 83, 55, 53>>>>,  \* "X7S75"
       <<"X7S100", <<88, 55, 83, 49, 48, 48>>>>,  \* "X7S100"
       <<"X7A12T", <<88, 55, 65, 49, 50, 84>>>>,  \* "X7A12T"
       <<"X7A15T", <<88, 55, 65, 49, 53, 84>>>>,  \* "X7A15T"
       <<"X7A25T", <<88, 55, 65, 50, 53, 84>>>>,  \* "X7A25T"
       <<"X7A35T", <<88, 55, 65, 51, 53, 84>>>>,  \* "X7A35T"
       <<"X7A50T", <<88, 55, 65, 53, 48, 84>>>>,  \* "X7A50T"
       <<"X7A75T", <<88, 55, 65, 55, 53, 84>>>>,  \* "X7A75T"
       <<"X7A100T", <<88, 55, 65, 49, 48, 48, 84>>>>,  \* "X7A100T"
       <<"X7A200T", <<88, 55, 65, 50, 48, 48, 84>>>>,  \* "X7A200T"
       <<"X7K70T", <<88, 55, 75, 55, 48, 84>>>>,  \* "X7K70T"
       <<"X7K160T", <<88, 55, 75, 49, 54, 48, 84>>>>,  \* "X7K160T"
       <<"X7K325T", <<88, 55, 75, 51, 50, 53, 84>>>>,  \* "X7K325T"
       <<"X7K355T", <<88, 55, 75, 51, 53, 53, 84>>>>,  \* "X7K355T"
       <<"X7K410T", <<88, 55, 75, 52, 49, 48, 84>>>>,  \* "X7K410T"
       <<"X7K420T", <<88, 55, 75, 52, 50, 48, 84>>>>,  \* "X7K420T"
       <<"X7K480T", <<88, 55, 75, 52, 56, 48, 84>>>>,  \* "X7K480T"
       <<"X7V575T", <<88, 55, 86, 53, 55, 53, 84>>>>,  \* "X7V575T"
       <<"X7VX330T", <<88, 55, 86, 88, 51, 51, 48, 84>>>>,  \* "X7VX330T"
       <<"X7VX415T", <<88, 55, 86, 88, 52, 49, 53, 84>>>>,  \* "X7VX415T"
       <<"X7VX485T", <<88, 55, 86, 88, 52, 56, 53, 84>>>>,  \* "X7VX485T"
       <<"X7VX550T", <<88, 55, 86, 88, 53, 53, 48, 84>>>>,  \* "X7VX550T"
       <<"X7VX690T", <<88, 55, 86, 88, 54, 57, 48, 84>>>>,  \* "X7VX690T"
       <<"X7VX980T", <<88, 55, 86, 88, 57, 56, 48, 84>>>>,  \* "X7VX980T"
       <<"X7VX1140T", <<88, 55, 86, 88, 49, 49, 52, 48, 84>>>>,  \* "X7VX1140T"
       <<"X7VH580T", <<88, 55, 86, 72, 53, 56, 48, 84>>>>,  \* "X7VH580T"
       <<"X7VH870T", <<88, 55, 86, 72, 56, 55, 48, 84>>>>,  \* "X7VH870T"
       <<"X7Z007S", <<88, 55, 90, 48, 48, 55, 83>>>>,  \* "X7Z007S"
       <<"X7Z012S", <<88, 55, 90, 48, 49, 50, 83>>>>,  \* "X7Z012S"
       <<"X7Z014S", <<88, 55, 90, 48, 49, 52, 83>>>>,  \* "X7Z014S"
       <<"X7Z010", <<88, 55, 90, 48, 49, 48>>>>,  \* "X7Z010"
       <<"X7Z015", <<88, 55, 90, 48, 49, 53>>>>,  \* "X7Z015"
       <<"X7Z020", <<88, 55, 90, 48, 50, 48>>>>,  \* "X7Z020"
       <<"X7Z030", <<88, 55, 90, 48, 51, 48>>>>,  \* "X7Z030"
       <<"X7Z035", <<88, 55, 90, 48, 51, 53>>>>,  \* "X7Z035"
       <<"X7Z045", <<88, 55, 90, 48, 52, 53>>>>,  \* "X7Z045"
       <<"X7Z100", <<88, 55, 90, 49, 48, 48>>>>  \* "X7Z100"
    >>

\* X7IDCODE::name
name(id) ==
    LET hits == {i \in 1..Len(name_arms) : name_arms[i][1] = id}
    IN  name_arms[CHOOSE i \in hits : \A j \in hits : i <= j][2]

\* X7IDCODE::compatible comparing the device families only (the upper
\* half of the code).
compatible_by_family(self, other) ==
    BitAnd(as_u32(self), U32(65535, 0)) = BitAnd(as_u32(other), U32(65535, 0))

\* X7IDCODE::compatible: the derived PartialEq of the enum.
compatible(self, other) == self = other

\* --------------------------------------------------------- TAP selection

\* A JTAGChain is the sequence of its idcodes(), nearest TDO first: <<>>
\* for a TAP without an IDCODE (None), <<code>> for one with (Some).

\* check_tap_idx: the 7-series identity of the TAP at the index, if any.
check_tap_idx(chain, index) ==
    IF index + 1 \in 1..Len(chain) /\ chain[index + 1] # <<>>
    THEN try_from_idcode(chain[index + 1][1])
    ELSE <<>>

RECURSIVE x7_idxs_from(_, _)
\* The (index, identity) pairs auto_tap_idx collects, from index i on:
\* enumerate, keep the TAPs with an IDCODE, keep those try_from_idcode
\* knows.
x7_idxs_from(chain, i) ==
    IF i >= Len(chain) THEN <<>>
    ELSE LET id == chain[i + 1]
             x7 == IF id = <<>> THEN <<>> ELSE try_from_idcode(id[1])
         IN  (IF x7 = <<>> THEN <<>> ELSE << <<i, x7[1]>> >>)
                \o x7_idxs_from(chain, i + 1)

\* auto_tap_idx taking the first 7-series device when there are several.
auto_tap_idx_first(chain) ==
    LET x7_idxs == x7_idxs_from(chain, 0)
    IN  IF Len(x7_idxs) = 0 THEN <<>> ELSE <<x7_idxs[1]>>

\* auto_tap_idx: Some((index, idcode)) as << <<index, id>> >>, None as <<>>.
auto_tap_idx(chain) ==
    LET x7_idxs == x7_idxs_from(chain, 0)
        len == Len(x7_idxs)
    IN  IF len = 0 THEN <<>>
        ELSE IF len > 1 THEN <<>>
        ELSE <<x7_idxs[1]>>

\* ------------------------------------------------------------ the inputs

\* Byte values of the payloads: neither is its own bit reversal, and the
\* two differ, so bit order and byte order both show.
ByteVals == {1, 178}

Payloads == UNION {[1..n -> ByteVals] : n \in 0..MaxLen}

\* The bits the status checks read.
CheckedBits == {0, 11, 12, 13, 14, 15, 16}

\* init_complete, init_b, release_done and done set, no error: 0x00007800.
GoodWord == U32(0, 30720)

\* Every bit the status checks do not read: 0xFFFE07FE.
OtherBits == U32(65534, 2046)

\* w with bit i flipped.
Flip(w, i) == IF i \in w THEN w \ {i} ELSE w \cup {i}

\* The status words the device may hold: the good word, the good word with
\* one of the checked bits flipped, the good word with every unchecked bit
\* set as well, and 0, 0x3FFF, 0x7FFE and 0xFFFFFFFF.
DeviceWords ==
    {GoodWord}
      \cup {Flip(GoodWord, i) : i \in CheckedBits}
      \cup {GoodWord \cup OtherBits}
      \cup {U32(0, 0), U32(0, 16383), U32(0, 32766), U32(65535, 65535)}

\* The device shifts a register out most significant bit first.
ShiftOut(w, n) == [k \in 1..n |-> WBit(w, n - k)]

\* What a 32 bit data register read may return.
RxWords == {ShiftOut(w, 32) : w \in DeviceWords}

\* What a 64 bit data register read may return.
RxDna == {ShiftOut(w, 64) : w \in {{0}, {1, 7, 8, 30, 33, 62}}}

\* ------------------------------------------------------------- the state

VARIABLES
    op,      \* the engine operation running: "none", "dna", "status",
             \* "program_cb" or "jprogram"
    pc,      \* the statement the operation is at; "done" once it returned
    caller,  \* who called status(): "status" for the caller of the engine,
             \* "check_ready_to_program" or "check_programmed_ok"
    data,    \* program_cb's argument data: the caller's payload buffer
    log,     \* the transport calls issued since the operation began, and
             \* the sleep, in order
    nbits,   \* the cumulative bit count the transport last reported during
             \* the data register write in progress
    cbs,     \* the arguments the caller's callback cb was invoked with
    word,    \* status()'s local status, <<>> before it is read
    reads,   \* the Status values status() returned, in order
    result,  \* the operation's outcome: "none", "Ok", "BadStatus", or
             \* "JTAG" for an error of the transport
    ret      \* the value returned with Ok: dna's bytes, status's Status

vars == <<op, pc, caller, data, log, nbits, cbs, word, reads, result, ret>>

\* One entry of the log. arg is the cycle count of an idle, the opcode of
\* an instruction register write, the bit count of a data register read or
\* write, the milliseconds of a sleep.
Ev(call, arg, bits, ok) == [call |-> call, arg |-> arg, bits |-> bits, ok |-> ok]

Init ==
    /\ op = "none"
    /\ pc = "idle"
    /\ caller = ""
    /\ data = <<>>
    /\ log = <<>>
    /\ nbits = 0
    /\ cbs = <<>>
    /\ word = <<>>
    /\ reads = <<>>
    /\ result = "none"
    /\ ret = <<>>

\* The result of a transport call dropped instead of propagated with ?.
Question_ignored(ok, next) ==
    /\ pc' = next
    /\ result' = IF next = "done" THEN "Ok" ELSE result

\* The ? operator on the result of a transport call: an error returns from
\* the operation at once, as Error::JTAG. A statement followed by Ok(..)
\* continues at "done".
Question(ok, next) ==
    IF ok
    THEN /\ pc' = next
         /\ result' = IF next = "done" THEN "Ok" ELSE result
    ELSE /\ pc' = "done"
         /\ result' = "JTAG"

\* One call of the transport, which may fail.
Transport(call, arg, bits, next) ==
    \E ok \in BOOLEAN :
        /\ log' = Append(log, Ev(call, arg, bits, ok))
        /\ Question(ok, next)

\* X7::command
command(c, next) == Transport("write_ir", c, Command_bits(c), next)

\* ---------------------------------------------------------------- status

call_status ==
    /\ pc = "idle"
    /\ op' = "status"
    /\ caller' = "status"
    /\ pc' = "s_reset"
    /\ UNCHANGED <<data, log, nbits, cbs, word, reads, result, ret>>

status_reset ==
    /\ pc = "s_reset"
    /\ Transport("reset", 0, <<>>, "s_idle")
    /\ UNCHANGED <<op, caller, data, nbits, cbs, word, reads, ret>>

\* status() idling one cycle instead of five.
status_idle_one ==
    /\ pc = "s_idle"
    /\ Transport("idle", 1, <<>>, "s_cfg_in")
    /\ UNCHANGED <<op, caller, data, nbits, cbs, word, reads, ret>>

status_idle ==
    /\ pc = "s_idle"
    /\ Transport("idle", 5, <<>>, "s_cfg_in")
    /\ UNCHANGED <<op, caller, data, nbits, cbs, word, reads, ret>>

status_cfg_in ==
    /\ pc = "s_cfg_in"
    /\ command(CFG_IN, "s_write_dr")
    /\ UNCHANGED <<op, caller, data, nbits, cbs, word, reads, ret>>

status_write_dr ==
    /\ pc = "s_write_dr"
    /\ Transport("write_dr", Len(StatusRequest), StatusRequest, "s_cfg_out")
    /\ UNCHANGED <<op, caller, data, nbits, cbs, word, reads, ret>>

status_cfg_out ==
    /\ pc = "s_cfg_out"
    /\ command(CFG_OUT, "s_read_dr")
    /\ UNCHANGED <<op, caller, data, nbits, cbs, word, reads, ret>>

status_read_dr ==
    /\ pc = "s_read_dr"
    /\ \/ \E rx \in RxWords :
            /\ log' = Append(log, Ev("read_dr", 32, rx, TRUE))
            /\ word' = <<StatusOfBits(rx)>>
            /\ Question(TRUE, "s_reset2")
       \/ /\ log' = Append(log, Ev("read_dr", 32, <<>>, FALSE))
          /\ word' = word
          /\ Question(FALSE, "s_reset2")
    /\ UNCHANGED <<op, caller, data, nbits, cbs, reads, ret>>

\* status() returning after the read without the final reset.
status_reset2_skipped ==
    /\ pc = "s_reset2"
    /\ pc' = "s_return"
    /\ UNCHANGED <<op, caller, data, log, nbits, cbs, word, reads, result, ret>>

status_reset2 ==
    /\ pc = "s_reset2"
    /\ Transport("reset", 0, <<>>, "s_return")
    /\ UNCHANGED <<op, caller, data, nbits, cbs, word, reads, ret>>

\* status() itself refusing a word whose init_complete is clear, instead of
\* returning it.
status_return_checked ==
    /\ pc = "s_return"
    /\ caller = "status"
    /\ reads' = Append(reads, word[1])
    /\ ret' = IF init_complete(word[1]) THEN word ELSE ret
    /\ word' = <<>>
    /\ pc' = "done"
    /\ result' = IF init_complete(word[1]) THEN "Ok" ELSE "BadStatus"
    /\ UNCHANGED <<op, caller, data, log, nbits, cbs>>

\* Ok(status), returned to the caller of the engine.
status_return ==
    /\ pc = "s_return"
    /\ caller = "status"
    /\ reads' = Append(reads, word[1])
    /\ ret' = word
    /\ word' = <<>>
    /\ pc' = "done"
    /\ result' = "Ok"
    /\ UNCHANGED <<op, caller, data, log, nbits, cbs>>

\* ------------------------------------------------------------------- dna

call_dna ==
    /\ pc = "idle"
    /\ op' = "dna"
    /\ pc' = "d_fuse_dna"
    /\ UNCHANGED <<caller, data, log, nbits, cbs, word, reads, result, ret>>

\* Command::XSC_DNA
XSC_DNA == 23

\* dna() loading XSC_DNA instead of FUSE_DNA.
dna_xsc_dna ==
    /\ pc = "d_fuse_dna"
    /\ command(XSC_DNA, "d_read_dr")
    /\ UNCHANGED <<op, caller, data, nbits, cbs, word, reads, ret>>

dna_fuse_dna ==
    /\ pc = "d_fuse_dna"
    /\ command(FUSE_DNA, "d_read_dr")
    /\ UNCHANGED <<op, caller, data, nbits, cbs, word, reads, ret>>

dna_read_dr ==
    /\ pc = "d_read_dr"
    /\ \/ \E rx \in RxDna :
            /\ log' = Append(log, Ev("read_dr", 64, rx, TRUE))
            /\ ret' = bits_to_bytes(rx)
            /\ Question(TRUE, "done")
       \/ /\ log' = Append(log, Ev("read_dr", 64, <<>>, FALSE))
          /\ ret' = ret
          /\ Question(FALSE, "done")
    /\ UNCHANGED <<op, caller, data, nbits, cbs, word, reads>>

\* -------------------------------------------------------------- jprogram

call_jprogram ==
    /\ pc = "idle"
    /\ op' = "jprogram"
    /\ pc' = "j_jprogram"
    /\ UNCHANGED <<caller, data, log, nbits, cbs, word, reads, result, ret>>

jprogram_jprogram ==
    /\ pc = "j_jprogram"
    /\ command(JPROGRAM, "j_idle")
    /\ UNCHANGED <<op, caller, data, nbits, cbs, word, reads, ret>>

\* jprogram() idling one cycle, as program_cb does after JPROGRAM.
jprogram_idle_one ==
    /\ pc = "j_idle"
    /\ Transport("idle", 1, <<>>, "j_reset")
    /\ UNCHANGED <<op, caller, data, nbits, cbs, word, reads, ret>>

jprogram_idle ==
    /\ pc = "j_idle"
    /\ Transport("idle", 2000, <<>>, "j_reset")
    /\ UNCHANGED <<op, caller, data, nbits, cbs, word, reads, ret>>

jprogram_reset ==
    /\ pc = "j_reset"
    /\ Transport("reset", 0, <<>>, "done")
    /\ UNCHANGED <<op, caller, data, nbits, cbs, word, reads, ret>>

\* ------------------------------------------------------------ program_cb

\* data.iter().map(|x| x.reverse_bits()).collect() with a rotation of each
\* byte by one bit in place of the reversal.
reverse_bits_buffer_rotated(d) ==
    [i \in 1..Len(d) |-> ((2 * d[i]) % 256) + (d[i] \div 128)]

\* data.iter().map(|x| x.reverse_bits()).collect(): a new buffer with every
\* byte of d bit-reversed.
reverse_bits_buffer(d) == [i \in 1..Len(d) |-> reverse_bits_u8(d[i])]

\* program_cb shifting the payload's bytes without reversing their bits.
program_bits_unreversed(d) == bytes_to_bits(d, Len(d) * 8)

\* The bits program_cb shifts into the data register for the payload d:
\* every byte bit-reversed, then unpacked least significant bit first.
program_bits(d) ==
    LET reversed == reverse_bits_buffer(d)
    IN  bytes_to_bits(reversed, Len(reversed) * 8)

\* The closure passing the transport's bit count on undivided.
progress_in_bits(n) == n

\* The closure handed to write_dr_cb: the transport's bit count n reaches
\* the caller's callback as cb(n / 8).
progress(n) == n \div 8

call_program_cb ==
    /\ pc = "idle"
    /\ \E d \in Payloads : data' = d
    /\ op' = "program_cb"
    /\ caller' = "check_ready_to_program"
    /\ pc' = "s_reset"
    /\ UNCHANGED <<log, nbits, cbs, word, reads, result, ret>>

\* status() returned Ok(status) to check_ready_to_program, which tests it.
check_ready_to_program ==
    /\ pc = "s_return"
    /\ caller = "check_ready_to_program"
    /\ reads' = Append(reads, word[1])
    /\ word' = <<>>
    /\ caller' = ""
    /\ IF ReadyToProgram(word[1])
       THEN pc' = "p_reset1" /\ result' = result
       ELSE pc' = "done" /\ result' = "BadStatus"
    /\ UNCHANGED <<op, data, log, nbits, cbs, ret>>

program_cb_reset1 ==
    /\ pc = "p_reset1"
    /\ Transport("reset", 0, <<>>, "p_jprogram")
    /\ UNCHANGED <<op, caller, data, nbits, cbs, word, reads, ret>>

program_cb_jprogram ==
    /\ pc = "p_jprogram"
    /\ command(JPROGRAM, "p_idle1")
    /\ UNCHANGED <<op, caller, data, nbits, cbs, word, reads, ret>>

\* program_cb going on to the second reset without the sleep.
program_cb_idle1_no_sleep ==
    /\ pc = "p_idle1"
    /\ Transport("idle", 1, <<>>, "p_reset2")
    /\ UNCHANGED <<op, caller, data, nbits, cbs, word, reads, ret>>

program_cb_idle1 ==
    /\ pc = "p_idle1"
    /\ Transport("idle", 1, <<>>, "p_sleep")
    /\ UNCHANGED <<op, caller, data, nbits, cbs, word, reads, ret>>

\* std::thread::sleep(Duration::from_millis(20)): no transport call, and
\* nothing to fail.
program_cb_sleep ==
    /\ pc = "p_sleep"
    /\ log' = Append(log, Ev("sleep", 20, <<>>, TRUE))
    /\ pc' = "p_reset2"
    /\ UNCHANGED <<op, caller, data, nbits, cbs, word, reads, result, ret>>

program_cb_reset2 ==
    /\ pc = "p_reset2"
    /\ Transport("reset", 0, <<>>, "p_cfg_in")
    /\ UNCHANGED <<op, caller, data, nbits, cbs, word, reads, ret>>

\* program_cb returning early, with Ok, for an empty payload.
program_cb_cfg_in_empty_shortcut ==
    /\ pc = "p_cfg_in"
    /\ IF data = <<>>
       THEN log' = log /\ pc' = "done" /\ result' = "Ok"
       ELSE command(CFG_IN, "p_write_dr")
    /\ UNCHANGED <<op, caller, data, nbits, cbs, word, reads, ret>>

program_cb_cfg_in ==
    /\ pc = "p_cfg_in"
    /\ command(CFG_IN, "p_write_dr")
    /\ UNCHANGED <<op, caller, data, nbits, cbs, word, reads, ret>>

\* The transport, inside write_dr_cb, reports the cumulative count of bits
\* it has shifted so far: never less than it last reported, never more than
\* the bits it was given.
program_cb_progress ==
    /\ pc = "p_write_dr"
    /\ Len(cbs) < MaxCb
    /\ \E n \in nbits..Len(program_bits(data)) :
          /\ nbits' = n
          /\ cbs' = Append(cbs, progress(n))
    /\ UNCHANGED <<op, pc, caller, data, log, word, reads, result, ret>>

\* write_dr_cb returns.
program_cb_write_dr ==
    /\ pc = "p_write_dr"
    /\ Transport("write_dr", Len(program_bits(data)), program_bits(data), "p_idle2")
    /\ nbits' = 0
    /\ UNCHANGED <<op, caller, data, cbs, word, reads, ret>>

program_cb_idle2 ==
    /\ pc = "p_idle2"
    /\ Transport("idle", 1, <<>>, "p_jstart")
    /\ UNCHANGED <<op, caller, data, nbits, cbs, word, reads, ret>>

program_cb_jstart ==
    /\ pc = "p_jstart"
    /\ command(JSTART, "p_idle2000")
    /\ UNCHANGED <<op, caller, data, nbits, cbs, word, reads, ret>>

program_cb_idle2000 ==
    /\ pc = "p_idle2000"
    /\ Transport("idle", 2000, <<>>, "p_reset3")
    /\ UNCHANGED <<op, caller, data, nbits, cbs, word, reads, ret>>

\* The reset that ends the startup sequence; check_programmed_ok is next,
\* and begins by calling status().
program_cb_reset3 ==
    /\ pc = "p_reset3"
    /\ Transport("reset", 0, <<>>, "s_reset")
    /\ caller' = IF pc' = "s_reset" THEN "check_programmed_ok" ELSE caller
    /\ UNCHANGED <<op, data, nbits, cbs, word, reads, ret>>

\* check_programmed_ok testing the status word the pre-check had obtained
\* instead of the one just read.
check_programmed_ok_stale ==
    /\ pc = "s_return"
    /\ caller = "check_programmed_ok"
    /\ reads' = Append(reads, word[1])
    /\ word' = <<>>
    /\ caller' = ""
    /\ IF ProgrammedOk(reads[1])
       THEN pc' = "p_reset4" /\ result' = result
       ELSE pc' = "done" /\ result' = "BadStatus"
    /\ UNCHANGED <<op, data, log, nbits, cbs, ret>>

\* status() returned Ok(status) to check_programmed_ok, which tests it.
check_programmed_ok ==
    /\ pc = "s_return"
    /\ caller = "check_programmed_ok"
    /\ reads' = Append(reads, word[1])
    /\ word' = <<>>
    /\ caller' = ""
    /\ IF ProgrammedOk(word[1])
       THEN pc' = "p_reset4" /\ result' = result
       ELSE pc' = "done" /\ result' = "BadStatus"
    /\ UNCHANGED <<op, data, log, nbits, cbs, ret>>

program_cb_reset4 ==
    /\ pc = "p_reset4"
    /\ Transport("reset", 0, <<>>, "done")
    /\ UNCHANGED <<op, caller, data, nbits, cbs, word, reads, ret>>

\* ------------------------------------------------------ the specification

\* The operation has returned; the engine is ready for the next call.
Return ==
    /\ pc = "done"
    /\ op' = "none"
    /\ pc' = "idle"
    /\ caller' = ""
    /\ data' = <<>>
    /\ log' = <<>>
    /\ nbits' = 0
    /\ cbs' = <<>>
    /\ word' = <<>>
    /\ reads' = <<>>
    /\ result' = "none"
    /\ ret' = <<>>

Next ==
    \/ call_status
    \/ status_reset
    \/ status_idle
    \/ status_cfg_in
    \/ status_write_dr
    \/ status_cfg_out
    \/ status_read_dr
    \/ status_reset2
    \/ status_return
    \/ call_dna
    \/ dna_fuse_dna
    \/ dna_read_dr
    \/ call_jprogram
    \/ jprogram_jprogram
    \/ jprogram_idle
    \/ jprogram_reset
    \/ call_program_cb
    \/ check_ready_to_program
    \/ program_cb_reset1
    \/ program_cb_jprogram
    \/ program_cb_idle1
    \/ program_cb_sleep
    \/ program_cb_reset2
    \/ program_cb_cfg_in
    \/ program_cb_progress
    \/ program_cb_write_dr
    \/ program_cb_idle2
    \/ program_cb_jstart
    \/ program_cb_idle2000
    \/ program_cb_reset3
    \/ check_programmed_ok
    \/ program_cb_reset4
    \/ Return

Spec == Init /\ [][Next]_vars

\* --------------------------------------------------- the pure functions

\* The functions of the crate that touch no transport are applied to
\* arguments drawn from the sets below: op names the function, data holds
\* its argument and ret its result.

\* Data register contents for the decoding of a status: every sequence
\* with a single bit set, and what the device words shift out.
RxPatterns ==
    {[k \in 1..32 |-> IF k = j THEN 1 ELSE 0] : j \in 1..32} \cup RxWords

\* Status words for the accessors: 0, 0xFFFFFFFF, every word with a single
\* bit set or a single bit clear, and the device words.
StatusInputs ==
    {{}, 0..31}
      \cup {{i} : i \in 0..31}
      \cup {(0..31) \ {i} : i \in 0..31}
      \cup DeviceWords

\* The revision field: bits 28 to 31.
RevisionBits == 28..31

\* Raw IDCODEs: every code of the table under every revision, the same
\* with bit 12 flipped, and 0, 0xFFFFFFFF and 0x4BA00477 (not a 7-series).
IdcodeInputs ==
    LET known == {X7IDCODE[i].code : i \in 1..Len(X7IDCODE)}
    IN  {c \cup r : c \in known, r \in SUBSET RevisionBits}
          \cup {Flip(c, 12) \cup r : c \in known, r \in {{}, {28}, RevisionBits}}
          \cup {{}, 0..31, U32(19360, 1143)}

\* The positions of the letters of the upper-case string n.
LetterPositions(n) == {i \in 1..Len(n) : n[i] \in 65..90}

\* The strings that differ from n in the case of letters only.
CaseVariations(n) ==
    {[i \in 1..Len(n) |-> IF i \in low THEN n[i] + 32 ELSE n[i]] :
        low \in SUBSET LetterPositions(n)}

\* Strings for the lookup by name: every case variation of every canonical
\* name; and, for every name in upper and in lower case, the name without
\* its last character, without its first, with a "T" or a space appended
\* and with a space in front; and the empty string.
NameInputs ==
    LET canon == {name_arms[i][2] : i \in 1..Len(name_arms)}
        ends == UNION {{n, [i \in 1..Len(n) |-> IF n[i] \in 65..90 THEN n[i] + 32 ELSE n[i]]} :
                          n \in canon}
    IN  UNION {CaseVariations(n) : n \in canon}
          \cup {SubSeq(n, 1, Len(n) - 1) : n \in ends}
          \cup {SubSeq(n, 2, Len(n)) : n \in ends}
          \cup {Append(n, 84) : n \in ends}
          \cup {Append(n, 32) : n \in ends}
          \cup {<<32>> \o n : n \in ends}
          \cup {<<>>}

\* Byte buffers for the reversal: the empty buffer, every buffer of one
\* byte, the payloads, and buffers of two bytes of unlike patterns.
Buffers ==
    {<<>>}
      \cup {<<b>> : b \in 0..255}
      \cup Payloads
      \cup {<<a, b>> : a, b \in {0, 1, 128, 178, 255}}

\* What a TAP of a chain reports: no IDCODE, 0x13722093 (an XC7Z010 of
\* revision 1), 0x0362D093 (an XC7A35T) or 0x4BA00477 (not a 7-series).
TapIdcodes == {<<>>, <<U32(4978, 8339)>>, <<U32(866, 53395)>>, <<U32(19360, 1143)>>}

\* The chains of up to MaxChain TAPs.
Chains == UNION {[1..n -> TapIdcodes] : n \in 0..MaxChain}

\* The function f applied to x returned y.
Apply(f, x, y) ==
    /\ op' = f
    /\ data' = x
    /\ ret' = y
    /\ pc' = "done"
    /\ result' = "Ok"
    /\ UNCHANGED <<caller, log, nbits, cbs, word, reads>>

eval_status_decode ==
    /\ pc = "idle"
    /\ \E rx \in RxPatterns : Apply("status_decode", rx, <<StatusOfBits(rx)>>)

eval_Command_bits ==
    /\ pc = "idle"
    /\ \E i \in 1..Len(Command) :
          Apply("Command_bits", <<Command[i].name, Command[i].code>>,
                Command_bits(Command[i].code))

eval_check_tap_idx ==
    /\ pc = "idle"
    /\ \E chain \in Chains : \E index \in 0..MaxChain :
          Apply("check_tap_idx", <<chain, index>>, check_tap_idx(chain, index))

eval_auto_tap_idx ==
    /\ pc = "idle"
    /\ \E chain \in Chains : Apply("auto_tap_idx", chain, auto_tap_idx(chain))

eval_Status ==
    /\ pc = "idle"
    /\ \E w \in StatusInputs : Apply("Status", w, StatusFields(w))

eval_try_from_idcode ==
    /\ pc = "idle"
    /\ \E c \in IdcodeInputs : Apply("try_from_idcode", c, try_from_idcode(c))

eval_compatible ==
    /\ pc = "idle"
    /\ \E a \in X7Ids : \E b \in X7Ids :
          Apply("compatible", <<a, b>>, <<compatible(a, b), compatible(b, a)>>)

eval_try_from_name ==
    /\ pc = "idle"
    /\ \E n \in NameInputs : Apply("try_from_name", n, try_from_name(n))

eval_name ==
    /\ pc = "idle"
    /\ \E id \in X7Ids : Apply("name", id, name(id))

eval_reverse_bits ==
    /\ pc = "idle"
    /\ \E b \in Buffers :
          Apply("reverse_bits", b,
                <<reverse_bits_buffer(b), reverse_bits_buffer(reverse_bits_buffer(b))>>)

NextFn ==
    \/ eval_status_decode
    \/ eval_Command_bits
    \/ eval_check_tap_idx
    \/ eval_auto_tap_idx
    \/ eval_Status
    \/ eval_try_from_idcode
    \/ eval_compatible
    \/ eval_try_from_name
    \/ eval_name
    \/ eval_reverse_bits
    \/ Return

SpecFn == Init /\ [][NextFn]_vars

\* ------------------------------------------------- the command line tool

\* The subcommands main declares.
Subcommands == {"probes", "scan", "reset", "reload", "dna", "status", "program"}

\* The --tap argument: absent (<<>>) or an index.
TapArgs == {<<>>} \cup {<<i>> : i \in 0..MaxChain}

\* main has parsed its arguments. data is <<subcommand, tap argument>>, to
\* which the scanned chain and the selected (index, identity) are appended
\* when main obtains them.
call_main ==
    /\ pc = "idle"
    /\ \E sub \in Subcommands : \E tap \in TapArgs : data' = <<sub, tap>>
    /\ op' = "main"
    /\ pc' = "m_probes"
    /\ UNCHANGED <<caller, log, nbits, cbs, word, reads, result, ret>>

\* "probes" lists the probes and returns before any probe is opened.
main_probes ==
    /\ pc = "m_probes"
    /\ IF data[1] = "probes"
       THEN pc' = "done" /\ result' = "Ok"
       ELSE pc' = "m_open" /\ result' = result
    /\ UNCHANGED <<op, caller, data, log, nbits, cbs, word, reads, ret>>

\* The probe is opened and the DAP created; either may fail.
main_open ==
    /\ pc = "m_open"
    /\ \E ok \in BOOLEAN :
          IF ok
          THEN pc' = "m_reset" /\ result' = result
          ELSE pc' = "done" /\ result' = "Err"
    /\ UNCHANGED <<op, caller, data, log, nbits, cbs, word, reads, ret>>

\* "reset" pulses nRST for 100 ms and returns.
main_reset ==
    /\ pc = "m_reset"
    /\ IF data[1] = "reset"
       THEN \E ok \in BOOLEAN :
               /\ log' = Append(log, Ev("pulse_nrst", 100, <<>>, ok))
               /\ pc' = "done"
               /\ result' = IF ok THEN "Ok" ELSE "Err"
       ELSE pc' = "m_scan" /\ UNCHANGED <<log, result>>
    /\ UNCHANGED <<op, caller, data, nbits, cbs, word, reads, ret>>

\* The chain is scanned, which may fail; "scan" prints it and returns.
main_scan ==
    /\ pc = "m_scan"
    /\ \/ pc' = "done" /\ result' = "Err" /\ data' = data
       \/ \E chain \in Chains :
             /\ data' = Append(data, chain)
             /\ IF data[1] = "scan"
                THEN pc' = "done" /\ result' = "Ok"
                ELSE pc' = "m_select" /\ result' = result
    /\ UNCHANGED <<op, caller, log, nbits, cbs, word, reads, ret>>

\* The TAP is the one of --tap if it is a 7-series device, else the one
\* auto_tap_idx finds; main bails out when there is none.
main_select ==
    /\ pc = "m_select"
    /\ LET tap == data[2]
           chain == data[3]
           found == IF tap # <<>>
                    THEN (IF check_tap_idx(chain, tap[1]) # <<>>
                          THEN << <<tap[1], check_tap_idx(chain, tap[1])[1]>> >>
                          ELSE <<>>)
                    ELSE auto_tap_idx(chain)
       IN  IF found # <<>>
           THEN data' = Append(data, found[1]) /\ pc' = "m_into_tap" /\ result' = result
           ELSE data' = data /\ pc' = "done" /\ result' = "Err"
    /\ UNCHANGED <<op, caller, log, nbits, cbs, word, reads, ret>>

\* jtag.into_tap(chain, tap_idx)?, then X7::new.
main_into_tap ==
    /\ pc = "m_into_tap"
    /\ \E ok \in BOOLEAN :
          IF ok
          THEN pc' = "m_dispatch" /\ result' = result
          ELSE pc' = "done" /\ result' = "Err"
    /\ UNCHANGED <<op, caller, data, log, nbits, cbs, word, reads, ret>>

\* main dispatching every subcommand that is left to its operation.
main_dispatch_all ==
    /\ pc = "m_dispatch"
    /\ op' = CASE data[1] = "dna" -> "dna"
               [] data[1] = "status" -> "status"
               [] data[1] = "reload" -> "jprogram"
               [] OTHER -> "program_cb"
    /\ pc' = CASE data[1] = "dna" -> "d_fuse_dna"
               [] data[1] = "reload" -> "j_jprogram"
               [] OTHER -> "s_reset"
    /\ caller' = CASE data[1] = "status" -> "status"
                   [] data[1] = "program" -> "check_ready_to_program"
                   [] OTHER -> caller
    /\ result' = result
    /\ UNCHANGED <<data, log, nbits, cbs, word, reads, ret>>

\* The match on the subcommand: x7.dna()?, x7.status()?, and the panic of
\* every other subcommand.
main_dispatch ==
    /\ pc = "m_dispatch"
    /\ IF data[1] = "dna"
       THEN op' = "dna" /\ pc' = "d_fuse_dna" /\ caller' = caller /\ result' = result
       ELSE IF data[1] = "status"
       THEN op' = "status" /\ pc' = "s_reset" /\ caller' = "status" /\ result' = result
       ELSE op' = op /\ pc' = "done" /\ caller' = caller /\ result' = "panic"
    /\ UNCHANGED <<data, log, nbits, cbs, word, reads, ret>>

NextMain ==
    \/ call_main
    \/ main_probes
    \/ main_open
    \/ main_reset
    \/ main_scan
    \/ main_select
    \/ main_into_tap
    \/ main_dispatch
    \/ dna_fuse_dna
    \/ dna_read_dr
    \/ status_reset
    \/ status_idle
    \/ status_cfg_in
    \/ status_write_dr
    \/ status_cfg_out
    \/ status_read_dr
    \/ status_reset2
    \/ status_return
    \/ Return

SpecMain == Init /\ [][NextMain]_vars

\* ================================================================ claims

\* The calls of a log, without their bits and outcomes.
Calls(l) == [i \in 1..Len(l) |-> <<l[i].call, l[i].arg>>]

\* No call of the log failed.
AllOk(l) == \A i \in 1..Len(l) : l[i].ok

\* The transport calls of one status read.
StatusReadCalls ==
    << <<"reset", 0>>, <<"idle", 5>>, <<"write_ir", CFG_IN>>,
       <<"write_dr", 160>>, <<"write_ir", CFG_OUT>>, <<"read_dr", 32>>,
       <<"reset", 0>> >>

\* The steps of a complete program_cb run for a payload of n bytes.
ProgramCalls(n) ==
    StatusReadCalls
      \o << <<"reset", 0>>, <<"write_ir", JPROGRAM>>, <<"idle", 1>>,
            <<"sleep", 20>>,
            <<"reset", 0>>, <<"write_ir", CFG_IN>>,
            <<"write_dr", 8 * n>>,
            <<"idle", 1>>,
            <<"write_ir", JSTART>>, <<"idle", 2000>>, <<"reset", 0>> >>
      \o StatusReadCalls
      \o << <<"reset", 0>> >>

\* What the pre-check requires of a status word, by bit position.
PassesPre(s) == {11, 12} \subseteq s

\* What the post-check requires of a status word, by bit position.
PassesPost(s) == {11, 12, 13, 14} \subseteq s /\ s \cap {0, 15, 16} = {}

\* C1: when the status the pre-check of program_cb obtains has init_complete
\* (bit 11) or init_b (bit 12) clear, program_cb has returned BadStatus, the
\* transport saw the seven calls of that one status read and nothing else
\* (no JPROGRAM, no sleep, no CFG_IN for configuration, no bitstream write,
\* no JSTART), and the callback was never invoked.
C1_PreCheckFailureStops ==
    (op = "program_cb" /\ Len(reads) >= 1 /\ ~PassesPre(reads[1])) =>
        /\ pc = "done"
        /\ result = "BadStatus"
        /\ Len(reads) = 1
        /\ Calls(log) = StatusReadCalls
        /\ Len(log[4].bits) = 160
        /\ \A i \in 1..Len(log) : log[i].call # "sleep"
        /\ \A i \in 1..Len(log) :
              log[i].call = "write_ir" => log[i].arg \notin {JPROGRAM, JSTART}
        /\ cbs = <<>>

\* C1 witness: the pre-check read a word with init_complete set and init_b
\* clear and program_cb returned BadStatus.
C1_Witness ==
    /\ op = "program_cb"
    /\ Len(data) > 0
    /\ Len(reads) = 1
    /\ 11 \in reads[1]
    /\ 12 \notin reads[1]
    /\ result = "BadStatus"

C3_PostCheckIff ==
    (op = "program_cb" /\ Len(reads) = 2) =>
        (PassesPost(reads[2]) <=> result # "BadStatus")

\* C3 witness: the post-check read the good word with crc_error (bit 0) set
\* and program_cb returned BadStatus.
C3_Witness ==
    /\ op = "program_cb"
    /\ Len(reads) = 2
    /\ reads[2] = {0, 11, 12, 13, 14}
    /\ result = "BadStatus"

\* C4 as stated: a post-check that reads the status word 0x00003FFF does
\* not end in BadStatus.
C4_Original ==
    (op = "program_cb" /\ Len(reads) = 2 /\ reads[2] = U32(0, 16383)) =>
        result # "BadStatus"

\* C4, amended: a post-check that reads 0x00003FFF ends in BadStatus (the
\* word has done, bit 14, clear and crc_error, bit 0, set); one that reads
\* 0x00007800, the four required bits and nothing else, does not.
C4_PostCheckOf3FFF ==
    (op = "program_cb" /\ Len(reads) = 2) =>
        /\ reads[2] = U32(0, 16383) => (pc = "done" /\ result = "BadStatus")
        /\ reads[2] = U32(0, 30720) => result # "BadStatus"

\* C4 witness: the post-check read 0x00003FFF.
C4_Witness ==
    /\ op = "program_cb"
    /\ Len(reads) = 2
    /\ reads[2] = U32(0, 16383)
    /\ pc = "done"

\* C5: in every operation a failed transport call is the last call issued,
\* the operation has returned, and its outcome is the transport's error:
\* nothing (no call, no retry, no sleep) follows the failure, and the
\* transport's error is the outcome of no run in which no call failed.
C5_TransportErrorAborts ==
    /\ \A i \in 1..Len(log) :
          ~log[i].ok => (i = Len(log) /\ pc = "done" /\ result = "JTAG")
    /\ result = "JTAG" => (log # <<>> /\ ~log[Len(log)].ok)

\* C5 witness: program_cb's bitstream write failed, after callbacks.
C5_Witness ==
    /\ op = "program_cb"
    /\ Len(log) = 14
    /\ log[14].call = "write_dr"
    /\ ~log[14].ok
    /\ Len(data) = 2
    /\ cbs # <<>>
    /\ result = "JTAG"

\* C6: a status read issues the calls of StatusReadCalls in their order, a
\* 160 bit write and a 32 bit read among them, and nothing else; status()
\* never ends in BadStatus, returns Ok with the Status it read whenever no
\* call failed, and the status reads inside program_cb are the same seven
\* calls.
C6_StatusReadSequence ==
    /\ op = "status" =>
          /\ result # "BadStatus"
          /\ Len(log) <= 7
          /\ Calls(log) = SubSeq(StatusReadCalls, 1, Len(log))
          /\ (pc = "done" /\ AllOk(log)) =>
                (result = "Ok" /\ Len(log) = 7 /\ ret = <<reads[1]>>)
          /\ result = "Ok" => (AllOk(log) /\ Len(log) = 7)
          /\ Len(log) >= 4 => Len(log[4].bits) = 160
          /\ (Len(log) >= 6 /\ log[6].ok) => Len(log[6].bits) = 32
    /\ (op = "program_cb" /\ Len(reads) >= 1) =>
          SubSeq(Calls(log), 1, 7) = StatusReadCalls
    /\ (op = "program_cb" /\ Len(reads) = 2) =>
          SubSeq(Calls(log), 19, 25) = StatusReadCalls

\* C6 witness: status() returned Ok with the all-zero status word.
C6_Witness ==
    /\ op = "status"
    /\ result = "Ok"
    /\ ret = <<{}>>
    /\ Len(log) = 7

\* The callback values are in non-decreasing order.
NonDecreasing(q) == \A i \in 1..Len(q) : \A j \in i..Len(q) : q[i] <= q[j]

\* C7: the callback is invoked only by a step taken during the bitstream
\* data register write of program_cb, which begins after the pre-check has
\* passed and CFG_IN is loaded; each invocation gets the transport's
\* cumulative bit count divided by 8, rounded down; the values are
\* non-decreasing and none exceeds the payload length.
C7_ProgressCallback ==
    /\ [](cbs # <<>> =>
            /\ op = "program_cb"
            /\ Len(reads) >= 1
            /\ PassesPre(reads[1])
            /\ Len(log) >= 13
            /\ SubSeq(Calls(log), 1, 13) = SubSeq(ProgramCalls(Len(data)), 1, 13)
            /\ NonDecreasing(cbs)
            /\ \A i \in 1..Len(cbs) : cbs[i] >= 0 /\ cbs[i] <= Len(data))
    /\ [][(cbs' # cbs /\ op' # "none") =>
            /\ pc = "p_write_dr"
            /\ pc' = "p_write_dr"
            /\ Len(log) = 13
            /\ log' = log
            /\ nbits' >= nbits
            /\ nbits' <= 8 * Len(data)
            /\ cbs' = Append(cbs, nbits' \div 8)]_vars

\* C7 witness: two callbacks during the write, the second for a bit count
\* that is no whole number of bytes.
C7_Witness ==
    /\ pc = "p_write_dr"
    /\ cbs = <<0, 1>>
    /\ nbits = 13

\* C8: for the empty payload the callback is only ever invoked with 0, and
\* a run in which no call and no check failed has performed the full
\* sequence, with a data register write of 0 bits, and has returned Ok.
C8_EmptyPayload ==
    (op = "program_cb" /\ data = <<>>) =>
        /\ \A i \in 1..Len(cbs) : cbs[i] = 0
        /\ (/\ pc = "done"
            /\ AllOk(log)
            /\ Len(reads) >= 1 => PassesPre(reads[1])
            /\ Len(reads) >= 2 => PassesPost(reads[2])) =>
              /\ result = "Ok"
              /\ Len(log) = 26
              /\ SubSeq(Calls(log), 8, 18) =
                    << <<"reset", 0>>, <<"write_ir", JPROGRAM>>, <<"idle", 1>>,
                       <<"sleep", 20>>, <<"reset", 0>>, <<"write_ir", CFG_IN>>,
                       <<"write_dr", 0>>, <<"idle", 1>>, <<"write_ir", JSTART>>,
                       <<"idle", 2000>>, <<"reset", 0>> >>
              /\ log[14].bits = <<>>
              /\ SubSeq(Calls(log), 1, 7) = SubSeq(Calls(log), 19, 25)
              /\ Calls(log)[26] = <<"reset", 0>>

\* C8 witness: the empty payload programmed with Ok, the callback invoked.
C8_Witness ==
    /\ op = "program_cb"
    /\ data = <<>>
    /\ result = "Ok"
    /\ cbs = <<0, 0>>

\* C9: a returned program_cb run in which no transport call failed ended in
\* BadStatus after the first status read alone, or in BadStatus after steps
\* 2 to 7 and the second status read without the final reset, or in Ok after
\* everything; BadStatus is the outcome of nothing else, and Ok of no run
\* in which a check failed.
C9_ThreeOutcomes ==
    /\ (op = "program_cb" /\ pc = "done" /\ AllOk(log)) =>
          \/ /\ result = "BadStatus"
             /\ Len(reads) = 1
             /\ ~PassesPre(reads[1])
             /\ Len(log) = 7
          \/ /\ result = "BadStatus"
             /\ Len(reads) = 2
             /\ ~PassesPost(reads[2])
             /\ Calls(log) = SubSeq(ProgramCalls(Len(data)), 1, 25)
          \/ /\ result = "Ok"
             /\ Len(reads) = 2
             /\ PassesPre(reads[1])
             /\ PassesPost(reads[2])
             /\ Calls(log) = ProgramCalls(Len(data))
    /\ result = "BadStatus" =>
          (op = "program_cb" /\ pc = "done" /\ AllOk(log) /\ Len(log) \in {7, 25})
    /\ (op = "program_cb" /\ result = "Ok") =>
          (Len(reads) = 2 /\ PassesPre(reads[1]) /\ PassesPost(reads[2]))

\* C9 witness: BadStatus from the post-check, the final reset not issued.
C9_Witness ==
    /\ op = "program_cb"
    /\ result = "BadStatus"
    /\ Len(reads) = 2
    /\ Len(log) = 25
    /\ Len(data) = 1

\* C10: the bitstream data register write of program_cb carries 8 bits per
\* payload byte, bit k (from 0) being bit 7 - k mod 8 of byte k div 8 of the
\* caller's buffer, and the buffer is the same at every step of the run.
C10_BitOrder ==
    /\ []((op = "program_cb" /\ Len(log) >= 14) =>
            /\ log[14].call = "write_dr"
            /\ Len(log[14].bits) = 8 * Len(data)
            /\ \A k \in 0..(8 * Len(data) - 1) :
                  log[14].bits[k + 1] = Bit(data[(k \div 8) + 1], 7 - (k % 8)))
    /\ [][(op = "program_cb" /\ op' = "program_cb") => data' = data]_vars

\* C10 witness: the bytes 0x01, 0xB2 were shifted.
C10_Witness ==
    /\ op = "program_cb"
    /\ Len(log) >= 14
    /\ log[14].ok
    /\ data = <<1, 178>>
    /\ log[14].bits = <<0, 0, 0, 0, 0, 0, 0, 1, 1, 0, 1, 1, 0, 0, 1, 0>>

\* C11: the Status built from the 32 bits of a data register read has, for
\* every i in 0..31, its bit i equal to the bit received in place 31 - i
\* (the first received bit in place 0); it has no bit outside 0..31.
C11_StatusBitReversal ==
    op = "status_decode" =>
        /\ Len(ret) = 1
        /\ ret[1] \subseteq 0..31
        /\ \A i \in 0..31 : (i \in ret[1]) <=> (data[(31 - i) + 1] = 1)

\* C11 witness: only the third bit received was set, and the Status has
\* bit 29 alone.
C11_Witness ==
    /\ op = "status_decode"
    /\ data = [k \in 1..32 |-> IF k = 3 THEN 1 ELSE 0]
    /\ ret = <<{29}>>

\* The five words of the status request: 0xAA995566, 0x20000000,
\* 0x2800E001, 0x20000000, 0x20000000.
StatusRequestWords ==
    <<U32(43673, 21862), U32(8192, 0), U32(10240, 57345), U32(8192, 0), U32(8192, 0)>>

\* C12: the data register write of a status read (the fourth call of
\* status(), so the 4th call of status and of program_cb and the 22nd of
\* program_cb) carries exactly 160 bits: the five words of
\* StatusRequestWords in order, each most significant bit first; it is the
\* same whatever was read or done before.
C12_StatusRequestPayload ==
    \A i \in {4, 22} :
        (op \in {"status", "program_cb"} /\ i <= Len(log)) =>
            /\ log[i].call = "write_dr"
            /\ log[i].arg = 160
            /\ Len(log[i].bits) = 160
            /\ \A k \in 0..159 :
                  log[i].bits[k + 1] =
                      WBit(StatusRequestWords[(k \div 32) + 1], 31 - (k % 32))

\* C12 witness: the second status read of a program_cb run whose first
\* read returned 0x7FFE; its payload begins with 0xAA995566, the most
\* significant bit first.
C12_Witness ==
    /\ op = "program_cb"
    /\ Len(log) >= 22
    /\ reads[1] = U32(0, 32766)
    /\ SubSeq(log[22].bits, 1, 32) =
          <<1, 0, 1, 0, 1, 0, 1, 0,  1, 0, 0, 1, 1, 0, 0, 1,
            0, 1, 0, 1, 0, 1, 0, 1,  0, 1, 1, 0, 0, 1, 1, 0>>
    /\ SubSeq(log[22].bits, 33, 40) = <<0, 0, 1, 0, 0, 0, 0, 0>>

\* Bit i of the word w as a number, by membership.
B(w, i) == IF i \in w THEN 1 ELSE 0

\* C13: for every status word, each of the 17 accessors returns the bits of
\* the word at its position and nothing else: startup_state bits 18-20,
\* xadc_overtemp 17, dec_error 16, id_error 15, done 14, release_done 13,
\* init_b 12, init_complete 11, mode bits 8-10, ghigh_b 7, gwe 6,
\* gts_cfg_b 5, eos 4, dci_match 3, mmcm_lock 2, part_secured 1,
\* crc_error 0; every accessor returns a value.
C13_StatusAccessors ==
    op = "Status" =>
        /\ DOMAIN ret =
              {"startup_state", "xadc_overtemp", "dec_error", "id_error",
               "done", "release_done", "init_b", "init_complete", "mode",
               "ghigh_b", "gwe", "gts_cfg_b", "eos", "dci_match",
               "mmcm_lock", "part_secured", "crc_error"}
        /\ ret.startup_state = B(data, 18) + 2 * B(data, 19) + 4 * B(data, 20)
        /\ ret.xadc_overtemp = (17 \in data)
        /\ ret.dec_error = (16 \in data)
        /\ ret.id_error = (15 \in data)
        /\ ret.done = (14 \in data)
        /\ ret.release_done = (13 \in data)
        /\ ret.init_b = (12 \in data)
        /\ ret.init_complete = (11 \in data)
        /\ ret.mode = B(data, 8) + 2 * B(data, 9) + 4 * B(data, 10)
        /\ ret.ghigh_b = (7 \in data)
        /\ ret.gwe = (6 \in data)
        /\ ret.gts_cfg_b = (5 \in data)
        /\ ret.eos = (4 \in data)
        /\ ret.dci_match = (3 \in data)
        /\ ret.mmcm_lock = (2 \in data)
        /\ ret.part_secured = (1 \in data)
        /\ ret.crc_error = (0 \in data)

\* C13 witness: the word with bit 10 alone clear decodes to mode 3,
\* startup_state 7 and every flag set.
C13_Witness ==
    /\ op = "Status"
    /\ data = (0..31) \ {10}
    /\ ret.mode = 3
    /\ ret.startup_state = 7
    /\ ret.ghigh_b
    /\ ret.init_complete

\* C14: the lookup of a raw IDCODE returns the table entry whose code is the
\* low 28 bits of the raw code, or None when the table has no such entry;
\* the raw code under any other revision (bits 28-31) gives the same
\* answer, and 0x13722093 and 0x03722093 give the same device.
C14_RevisionIgnored ==
    op = "try_from_idcode" =>
        LET low == data \cap (0..27)
            entries == {i \in 1..Len(X7IDCODE) : X7IDCODE[i].code = low}
        IN  /\ entries = {} => ret = <<>>
            /\ \A i \in entries : ret = <<X7IDCODE[i].id>>
            /\ \A r \in SUBSET (28..31) : try_from_idcode(low \cup r) = ret
            /\ low = U32(882, 8339) =>
                  /\ ret = <<"X7Z010">>
                  /\ try_from_idcode(U32(4978, 8339)) = ret
                  /\ try_from_idcode(U32(882, 8339)) = ret
                  /\ name(try_from_idcode(U32(4978, 8339))[1])
                        = name(try_from_idcode(U32(882, 8339))[1])

\* C14 witness: 0x13722093, revision 1, resolves to the XC7Z010.
C14_Witness ==
    /\ op = "try_from_idcode"
    /\ data = U32(4978, 8339)
    /\ ret = <<"X7Z010">>

\* C14 witness of the None outcome: 0x4BA00477 is in no table entry.
C14_WitnessNone ==
    /\ op = "try_from_idcode"
    /\ data = U32(19360, 1143)
    /\ ret = <<>>

\* C15: over the table entries compatible is reflexive and symmetric, and
\* compatible(a, b) holds exactly when the masked codes of a and b are
\* equal, which is exactly when a and b are the same entry.
C15_Compatible ==
    op = "compatible" =>
        LET a == data[1]
            b == data[2]
        IN  /\ ret[1] = ret[2]
            /\ a = b => ret[1]
            /\ ret[1] <=> (as_u32(a) \cap (0..27) = as_u32(b) \cap (0..27))
            /\ a # b => ~ret[1]

\* C15 witness: X7S6 and X7S15, two entries of one family, are not
\* compatible.
C15_Witness ==
    /\ op = "compatible"
    /\ data = <<"X7S6", "X7S15">>
    /\ ret = <<FALSE, FALSE>>

\* C15 witness of the reflexive case.
C15_WitnessSame ==
    /\ op = "compatible"
    /\ data = <<"X7K480T", "X7K480T">>
    /\ ret = <<TRUE, TRUE>>

\* s is n up to the case of its letters.
IsCaseVariation(s, n) ==
    /\ Len(s) = Len(n)
    /\ \A i \in 1..Len(n) :
          \/ s[i] = n[i]
          \/ n[i] \in 65..90 /\ s[i] = n[i] + 32
          \/ n[i] \in 97..122 /\ s[i] = n[i] - 32

\* C16: the lookup by name returns the entry id for every upper or lower
\* case variation of name(id), and None for every string that is a case
\* variation of no canonical name (a prefix, a suffix, a padded name, the
\* empty string).
C16_NameLookup ==
    op = "try_from_name" =>
        LET matches == {id \in X7Ids : IsCaseVariation(data, name(id))}
        IN  /\ matches = {} => ret = <<>>
            /\ \A id \in matches : ret = <<id>>

\* C16 witness: "x7Vx1140t" names the X7VX1140T.
C16_Witness ==
    /\ op = "try_from_name"
    /\ data = <<120, 55, 86, 120, 49, 49, 52, 48, 116>>
    /\ ret = <<"X7VX1140T">>

\* C16 witness of the None outcome: "x7s" is a prefix of names only.
C16_WitnessNone ==
    /\ op = "try_from_name"
    /\ data = <<120, 55, 115>>
    /\ ret = <<>>

\* p is the beginning of q.
IsPrefix(p, q) == Len(p) <= Len(q) /\ SubSeq(q, 1, Len(p)) = p

\* The transport calls of jprogram.
JprogramCalls == << <<"write_ir", JPROGRAM>>, <<"idle", 2000>>, <<"reset", 0>> >>

\* C17: jprogram performs, in order and with nothing before or between,
\* the IR write of JPROGRAM, an idle of 2000 cycles and a reset, then
\* returns Ok; it reads no status and no data register, writes no data
\* register and does not sleep, and it never returns BadStatus. (It stops
\* short only at a call the transport fails.)
C17_Jprogram ==
    op = "jprogram" =>
        /\ IsPrefix(Calls(log), JprogramCalls)
        /\ \A i \in 1..Len(log) : i < Len(log) => log[i].ok
        /\ reads = <<>> /\ word = <<>> /\ cbs = <<>>
        /\ result \in {"none", "Ok", "JTAG"}
        /\ (pc = "done" /\ AllOk(log)) =>
              (result = "Ok" /\ Calls(log) = JprogramCalls)
        /\ result = "Ok" => (Calls(log) = JprogramCalls /\ AllOk(log))
        /\ Len(log) >= 1 => log[1].bits = <<1, 1, 0, 1, 0, 0>>

\* C17 witness: a jprogram that returned Ok after its three calls.
C17_Witness ==
    /\ op = "jprogram"
    /\ pc = "done"
    /\ result = "Ok"
    /\ Len(log) = 3
    /\ log[2] = Ev("idle", 2000, <<>>, TRUE)

\* The transport calls of dna.
DnaCalls == << <<"write_ir", FUSE_DNA>>, <<"read_dr", 64>> >>

\* C18: dna performs the IR write of FUSE_DNA and then one data register
\* read of 64 bits and nothing else (no reset, no idle); it returns 8
\* bytes, bit k of byte j being the bit received in place 8 j + k; it never
\* returns BadStatus, and fails only where the transport failed.
C18_Dna ==
    op = "dna" =>
        /\ IsPrefix(Calls(log), DnaCalls)
        /\ reads = <<>> /\ word = <<>> /\ cbs = <<>>
        /\ result \in {"none", "Ok", "JTAG"}
        /\ result = "JTAG" => ~log[Len(log)].ok
        /\ (pc = "done" /\ AllOk(log)) => result = "Ok"
        /\ result = "Ok" =>
              /\ Calls(log) = DnaCalls
              /\ AllOk(log)
              /\ Len(log[2].bits) = 64
              /\ Len(ret) = 8
              /\ \A j \in 0..7 : \A k \in 0..7 :
                    Bit(ret[j + 1], k) = log[2].bits[8 * j + k + 1]
        /\ Len(log) >= 1 => log[1].bits = <<0, 1, 0, 0, 1, 1>>

\* C18 witness: the 64 bits of 0x4000000240000182, received most
\* significant first, returned as 8 bytes.
C18_Witness ==
    /\ op = "dna"
    /\ result = "Ok"
    /\ Len(log) = 2
    /\ log[2].bits = ShiftOut({1, 7, 8, 30, 33, 62}, 64)
    /\ ret = <<2, 0, 0, 64, 2, 0, 128, 65>>

\* C19: an engine operation returns Ok, BadStatus or a transport error and
\* nothing else (never NotOnlyTAP, IncompatibleIdcode or
\* RemoveIdcodeNoMetadata). BadStatus comes from program_cb alone, right
\* after one of its two status reads, the read word failing that check;
\* a transport error comes right after a call the transport failed.
C19_ErrorOutcomes ==
    /\ result \in {"none", "Ok", "BadStatus", "JTAG"}
    /\ result # "none" => pc = "done"
    /\ result = "BadStatus" =>
          /\ op = "program_cb"
          /\ \/ Len(log) = 7 /\ Len(reads) = 1 /\ ~PassesPre(reads[1])
             \/ Len(log) = 25 /\ Len(reads) = 2 /\ ~PassesPost(reads[2])
          /\ AllOk(log)
    /\ result = "JTAG" => (Len(log) >= 1 /\ ~log[Len(log)].ok)
    /\ op \in {"status", "dna", "jprogram"} => result # "BadStatus"

\* C19 witness: status() returning Ok a word that both checks of
\* program_cb would refuse.
C19_Witness ==
    /\ op = "status"
    /\ pc = "done"
    /\ result = "Ok"
    /\ ret = <<{}>>
    /\ ~PassesPre(ret[1])

\* C19 witness of BadStatus from the second check of program_cb.
C19_WitnessBadStatus ==
    /\ op = "program_cb"
    /\ result = "BadStatus"
    /\ Len(log) = 25

\* C20: reversing the bits of every byte of a buffer gives a buffer of the
\* same length whose byte i is byte i of the original with bit k moved to
\* bit 7 - k; doing it twice gives the original buffer; for every buffer,
\* the empty one and those of one byte included.
C20_ReverseTwice ==
    op = "reverse_bits" =>
        /\ ret[2] = data
        /\ Len(ret[1]) = Len(data)
        /\ \A i \in 1..Len(data) :
              /\ ret[1][i] \in 0..255
              /\ \A k \in 0..7 : Bit(ret[1][i], k) = Bit(data[i], 7 - k)

\* C20 witness: <<0x01, 0xB2>> reverses to <<0x80, 0x4D>> and back.
C20_Witness ==
    /\ op = "reverse_bits"
    /\ data = <<1, 178>>
    /\ ret = << <<128, 77>>, <<1, 178>> >>

\* C20 witness of the empty buffer.
C20_WitnessEmpty ==
    /\ op = "reverse_bits"
    /\ data = <<>>
    /\ ret = << <<>>, <<>> >>

\* C21 as stated: the bits loaded for an instruction are its opcode least
\* significant bit first, 6 of them for every instruction except
\* EXTEST_TRAIN, which has the 7 bits of 0b1111101.
C21_Original ==
    op = "Command_bits" =>
        /\ Len(ret) = (IF data[1] = "EXTEST_TRAIN" THEN 7 ELSE 6)
        /\ \A k \in 0..(Len(ret) - 1) : ret[k + 1] = Bit(data[2], k)
        /\ data[2] = SumTo([k \in 0..(Len(ret) - 1) |-> ret[k + 1] * Pow2(k)],
                           Len(ret) - 1)

\* C21 in the code: every instruction, EXTEST_TRAIN included, gives 6
\* bits, bits 0 to 5 of its opcode in that order; for EXTEST_TRAIN these
\* are 1,0,1,1,1,1 and bit 6 of 0b1111101 is left out.
C21_SixBitsAlways ==
    op = "Command_bits" =>
        /\ Len(ret) = 6
        /\ \A k \in 0..5 : ret[k + 1] = Bit(data[2], k)
        /\ data[1] = "EXTEST_TRAIN" =>
              (ret = <<1, 0, 1, 1, 1, 1>> /\ Bit(data[2], 6) = 1)
        /\ data[1] # "EXTEST_TRAIN" => data[2] < 64

\* C21 witness: the bits of EXTEST_TRAIN.
C21_Witness ==
    /\ op = "Command_bits"
    /\ data = <<"EXTEST_TRAIN", 125>>
    /\ ret = <<1, 0, 1, 1, 1, 1>>

\* The word whose bit i is the bit in place 31 - i of the 32 received bits.
WordOfRead(bits) == {i \in 0..31 : bits[(31 - i) + 1] = 1}

\* C22: each status check of program_cb tests the word read from the device
\* just before it: the first check tests the data register read that is the
\* 6th call, the second the one that is the 24th; a complete run has exactly
\* these two data register reads; BadStatus after the second read is
\* decided by the second word alone, whatever the first was; and the first
\* check passes every word with init_complete and init_b set, whatever its
\* done, release_done and error bits.
C22_FreshStatus ==
    op = "program_cb" =>
        /\ Len(reads) <= 2
        /\ \A i \in 1..Len(reads) :
              /\ Len(log) >= 6 + 18 * (i - 1)
              /\ log[6 + 18 * (i - 1)].call = "read_dr"
              /\ reads[i] = WordOfRead(log[6 + 18 * (i - 1)].bits)
        /\ Len(reads) = 1 => (result = "BadStatus" <=> ~PassesPre(reads[1]))
        /\ Len(reads) = 2 =>
              /\ PassesPre(reads[1])
              /\ result = "BadStatus" <=> ~PassesPost(reads[2])
        /\ result = "Ok" =>
              /\ Len(reads) = 2
              /\ {i \in 1..Len(log) : log[i].call = "read_dr"} = {6, 24}

\* C22 witness: the first status is 0x3FFF (done clear, crc_error set), the
\* second 0x7800, and the run returned Ok.
C22_Witness ==
    /\ op = "program_cb"
    /\ reads = <<U32(0, 16383), GoodWord>>
    /\ ~PassesPost(reads[1])
    /\ result = "Ok"

\* C22 witness of the converse: the first status passes both checks, the
\* second does not, and the run returned BadStatus.
C22_WitnessSecondBad ==
    /\ op = "program_cb"
    /\ Len(reads) = 2
    /\ reads[1] = GoodWord
    /\ reads[2] = U32(0, 16383)
    /\ result = "BadStatus"

\* C23: when status, jprogram or program_cb has returned Ok or BadStatus,
\* the last call it made of the transport is a reset that succeeded (the
\* sleep of program_cb is not the last entry either); when dna has returned
\* Ok its last call is the data register read and it made no reset.
C23_LeftInReset ==
    (pc = "done" /\ result \in {"Ok", "BadStatus"}) =>
        /\ op \in {"status", "jprogram", "program_cb"} =>
              /\ Len(log) >= 1
              /\ log[Len(log)] = Ev("reset", 0, <<>>, TRUE)
        /\ op = "dna" =>
              /\ log[Len(log)].call = "read_dr"
              /\ \A i \in 1..Len(log) : log[i].call # "reset"

\* C23 witness: program_cb returned BadStatus from its first check, the
\* reset ending the status read being its last call.
C23_Witness ==
    /\ op = "program_cb"
    /\ pc = "done"
    /\ result = "BadStatus"
    /\ Len(log) = 7
    /\ log[7].call = "reset"

\* C23 witness of dna returning with the read as its last call.
C23_WitnessDna ==
    /\ op = "dna"
    /\ pc = "done"
    /\ result = "Ok"
    /\ log[Len(log)].call = "read_dr"

\* The 7-series entry of the table an Option<IDCODE> resolves to, as a set:
\* empty for None and for a code whose low 28 bits are in no entry.
Known7Series(id) ==
    IF id = <<>> THEN {}
    ELSE {X7IDCODE[e].id : e \in {e \in 1..Len(X7IDCODE) :
                                     X7IDCODE[e].code = id[1] \cap (0..27)}}

\* C24: auto_tap_idx returns Some((i, id)) exactly when one and only one
\* position of the chain holds an IDCODE of a known 7-series device, i
\* being that position (from 0) and id that device; it returns None when
\* there is none and when there are several; TAPs without an IDCODE or with
\* an unknown one do not count. check_tap_idx returns the device at a
\* position, None for the same TAPs and for a position beyond the chain.
C24_AutoTapIdx ==
    /\ op = "auto_tap_idx" =>
          LET hits == {i \in 0..(Len(data) - 1) : Known7Series(data[i + 1]) # {}}
          IN  /\ Cardinality(hits) = 1 =>
                    \A i \in hits : \A id \in Known7Series(data[i + 1]) :
                        ret = << <<i, id>> >>
              /\ Cardinality(hits) # 1 => ret = <<>>
    /\ op = "check_tap_idx" =>
          LET chain == data[1]
              index == data[2]
              here == IF index < Len(chain) THEN Known7Series(chain[index + 1]) ELSE {}
          IN  /\ here = {} => ret = <<>>
              /\ \A id \in here : ret = <<id>>

\* C24 witness: of three TAPs, the first without an IDCODE and the last
\* not a 7-series, the XC7A35T in the middle is selected.
C24_Witness ==
    /\ op = "auto_tap_idx"
    /\ data = << <<>>, <<U32(866, 53395)>>, <<U32(19360, 1143)>> >>
    /\ ret = << <<1, "X7A35T">> >>

\* C24 witness of None for two 7-series devices.
C24_WitnessTwo ==
    /\ op = "auto_tap_idx"
    /\ data = << <<U32(4978, 8339)>>, <<U32(866, 53395)>> >>
    /\ ret = <<>>

\* The operation each subcommand stands for.
OperationOf(sub) ==
    CASE sub = "dna" -> "dna"
      [] sub = "status" -> "status"
      [] sub = "reload" -> "jprogram"
      [] sub = "program" -> "program_cb"
      [] OTHER -> "main"

\* C25 as stated: main never ends in the unhandled-command panic, and once
\* a 7-series TAP is selected and the TAP created, reload, dna, status and
\* program are each dispatched to their operation.
C25_Original ==
    /\ result # "panic"
    /\ (Len(data) = 4 /\ pc \notin {"m_into_tap", "m_dispatch"} /\ result # "Err") =>
          op = OperationOf(data[1])

\* C25 in the code: main ends in the panic only when, a 7-series TAP
\* selected, the subcommand is reload or program, and with these two it
\* ends in nothing else once the TAP is created (an error of into_tap
\* aside); dna and status are dispatched, and probes, reset and scan
\* return before the selection.
C25_Dispatch ==
    /\ result = "panic" =>
          (op = "main" /\ pc = "done" /\ Len(data) = 4
              /\ data[1] \in {"reload", "program"} /\ log = <<>>)
    /\ (Len(data) = 4 /\ data[1] \in {"reload", "program"} /\ pc = "done") =>
          result \in {"panic", "Err"}
    /\ (Len(data) >= 1 /\ op \notin {"main", "none"}) =>
          (data[1] \in {"dna", "status"} /\ op = data[1] /\ Len(data) = 4)
    /\ (Len(data) >= 1 /\ data[1] \in {"probes", "reset", "scan"}) => Len(data) <= 3

\* C25 witness: reload, on a chain whose only 7-series device is at
\* position 1, panics.
C25_Witness ==
    /\ data = <<"reload", <<>>,
                << <<>>, <<U32(866, 53395)>>, <<U32(19360, 1143)>> >>,
                <<1, "X7A35T">> >>
    /\ pc = "done"
    /\ result = "panic"

\* C25 witness of a dispatched subcommand: status, with --tap 0, returned
\* the word it read.
C25_WitnessStatus ==
    /\ Len(data) = 4
    /\ data[1] = "status"
    /\ data[2] = <<0>>
    /\ op = "status"
    /\ result = "Ok"
    /\ ret = <<GoodWord>>

====
